---- MODULE Spec2Model ----
(***************************************************************************)
(* Model of src/src/FirmaDigitalCompleto.jsx: the RSA signature demo       *)
(* component (issuer A signs, verifier B imports the public key and        *)
(* verifies), its PEM/Base64 helpers and its asynchronous handlers.        *)
(*                                                                         *)
(* Texts are JavaScript strings: sequences of UTF-16 code units (numbers). *)
(* Buffers are sequences of bytes.  A helper that can throw returns a      *)
(* record [ok, val, err].                                                  *)
(***************************************************************************)
EXTENDS Integers, Sequences, FiniteSets, TLC

(* ------------------------------ bounds --------------------------------- *)
MaxKeys == 1        \* key pairs the issuer generates in one behaviour
MaxInflight == 2    \* handler calls suspended at an await at the same time
MaxAcciones == 7    \* user actions (clicks and edits) in one behaviour
MaxTamper == 2      \* attack markers appended to one message
MaxRegen == 2       \* key pairs the issuer generates in one behaviour of SpecRegenerar
MaxB64Len == 66     \* longest Base64 body given to pemEncode in CodecSpec

(* --------------------------- small utilities --------------------------- *)
Ok(v) == [ok |-> TRUE, val |-> v, err |-> ""]
Throw(e) == [ok |-> FALSE, val |-> <<>>, err |-> e]

SetMax(S) == CHOOSE x \in S : \A y \in S : y <= x

RECURSIVE Join(_, _)
\* Array.prototype.join(sep) on a non-empty list of strings
Join(parts, sep) ==
  IF Len(parts) = 1 THEN parts[1]
  ELSE parts[1] \o sep \o Join(Tail(parts), sep)

(* ------------------------------ literals ------------------------------- *)
LF == <<10>>                                          \* '\n'
Dash5 == <<45, 45, 45, 45, 45>>                       \* '-----'
BeginTag == <<45, 45, 45, 45, 45, 66, 69, 71, 73, 78, 32>>  \* '-----BEGIN '
EndTag == <<45, 45, 45, 45, 45, 69, 78, 68, 32>>      \* '-----END '
PublicKeyTag == <<80, 85, 66, 76, 73, 67, 32, 75, 69, 89>>        \* 'PUBLIC KEY'
PrivateKeyTag == <<80, 82, 73, 86, 65, 84, 69, 32, 75, 69, 89>>   \* 'PRIVATE KEY'
\* ' [MODIFICADO]'
MarcadorCorto == <<32, 91, 77, 79, 68, 73, 70, 73, 67, 65, 68, 79, 93>>
\* ' [MODIFICADO POR ATAQUE]'
Marcador == <<32, 91, 77, 79, 68, 73, 70, 73, 67, 65, 68, 79, 32, 80, 79, 82,
              32, 65, 84, 65, 81, 85, 69, 93>>
WrapWidth == 64                                       \* /.{1,64}/g

(* --------------------- character classes of the regexps ---------------- *)
\* what '.' does not match: LF, CR, U+2028, U+2029
IsLineTerminator(c) == c \in {10, 13, 8232, 8233}
\* what '\s' matches
IsSpace(c) ==
  c \in ({9, 10, 11, 12, 13, 32, 160, 5760, 8232, 8233, 8239, 8287, 12288, 65279}
         \cup (8192..8202))
\* what atob() drops before decoding: TAB, LF, FF, CR, SPACE
IsAsciiWhitespace(c) == c \in {9, 10, 12, 13, 32}

(* ------------------------------ Base64 --------------------------------- *)
\* the Base64 alphabet: value 0..63 -> code unit
B64Char(v) ==
  IF v < 26 THEN 65 + v
  ELSE IF v < 52 THEN 97 + (v - 26)
  ELSE IF v < 62 THEN 48 + (v - 52)
  ELSE IF v = 62 THEN 43 ELSE 47

IsB64Char(c) ==
  (c >= 65 /\ c <= 90) \/ (c >= 97 /\ c <= 122) \/ (c >= 48 /\ c <= 57)
  \/ c = 43 \/ c = 47

B64Val(c) ==
  IF c >= 65 /\ c <= 90 THEN c - 65
  ELSE IF c >= 97 /\ c <= 122 THEN c - 97 + 26
  ELSE IF c >= 48 /\ c <= 57 THEN c - 48 + 52
  ELSE IF c = 43 THEN 62 ELSE 63

RECURSIVE btoa(_)
\* btoa(String.fromCharCode(...bytes)): padded standard Base64
btoa(b) ==
  IF Len(b) = 0 THEN <<>>
  ELSE IF Len(b) = 1 THEN
    <<B64Char(b[1] \div 4), B64Char((b[1] % 4) * 16), 61, 61>>
  ELSE IF Len(b) = 2 THEN
    <<B64Char(b[1] \div 4), B64Char((b[1] % 4) * 16 + (b[2] \div 16)),
      B64Char((b[2] % 16) * 4), 61>>
  ELSE
    <<B64Char(b[1] \div 4), B64Char((b[1] % 4) * 16 + (b[2] \div 16)),
      B64Char((b[2] % 16) * 4 + (b[3] \div 64)), B64Char(b[3] % 64)>>
    \o btoa(SubSeq(b, 4, Len(b)))

bufToBase64(buffer) == btoa(buffer)

RECURSIVE DecodeSextets(_)
\* the bytes of a run of Base64 characters whose length is not 1 mod 4
DecodeSextets(s) ==
  IF Len(s) = 0 THEN <<>>
  ELSE IF Len(s) = 2 THEN
    <<B64Val(s[1]) * 4 + (B64Val(s[2]) \div 16)>>
  ELSE IF Len(s) = 3 THEN
    <<B64Val(s[1]) * 4 + (B64Val(s[2]) \div 16),
      (B64Val(s[2]) % 16) * 16 + (B64Val(s[3]) \div 4)>>
  ELSE
    <<B64Val(s[1]) * 4 + (B64Val(s[2]) \div 16),
      (B64Val(s[2]) % 16) * 16 + (B64Val(s[3]) \div 4),
      (B64Val(s[3]) % 4) * 64 + B64Val(s[4])>>
    \o DecodeSextets(SubSeq(s, 5, Len(s)))

\* atob(): forgiving Base64 decode; throws InvalidCharacterError
atob(text) ==
  LET t == SelectSeq(text, LAMBDA c : ~IsAsciiWhitespace(c))
      n == Len(t)
      u == IF n > 0 /\ n % 4 = 0 /\ t[n] = 61
           THEN IF t[n - 1] = 61 THEN SubSeq(t, 1, n - 2) ELSE SubSeq(t, 1, n - 1)
           ELSE t
  IN IF Len(u) % 4 = 1 \/ \E i \in 1..Len(u) : ~IsB64Char(u[i])
     THEN Throw("InvalidCharacterError")
     ELSE Ok(DecodeSextets(u))

\* base64ToBuf: atob, then one byte per character of the binary string
base64ToBuf(base64) == atob(base64)

(* -------------------------------- PEM ---------------------------------- *)
\* end of the longest run of at most WrapWidth non-terminators starting at i
ChunkEnd(s, i) ==
  SetMax({j \in i..(IF Len(s) < i + WrapWidth - 1 THEN Len(s) ELSE i + WrapWidth - 1) :
            \A t \in i..j : ~IsLineTerminator(s[t])})

RECURSIVE MatchChunks(_, _)
\* base64.match(/.{1,64}/g) from index i on; <<>> stands for null (no match)
MatchChunks(s, i) ==
  IF i > Len(s) THEN <<>>
  ELSE IF IsLineTerminator(s[i]) THEN MatchChunks(s, i + 1)
  ELSE <<SubSeq(s, i, ChunkEnd(s, i))>> \o MatchChunks(s, ChunkEnd(s, i) + 1)

\* pemEncode: null.join throws a TypeError when nothing matches
pemEncode(base64, tag) ==
  LET m == MatchChunks(base64, 1)
  IN IF m = <<>> THEN Throw("TypeError")
     ELSE Ok(BeginTag \o tag \o Dash5 \o LF \o Join(m, LF) \o LF
             \o EndTag \o tag \o Dash5)

Dash5At(s, i) == i + 4 <= Len(s) /\ SubSeq(s, i, i + 4) = Dash5

\* start positions of a closing '-----' that /-----.*-----/ can reach from i
Closers(s, i) ==
  {j \in (i + 5)..(Len(s) - 4) :
     Dash5At(s, j) /\ \A t \in (i + 5)..(j - 1) : ~IsLineTerminator(s[t])}

\* the next index after i at which a '-----' starts (Len(s) + 1 if none)
NextDash5(s, i) ==
  CHOOSE j \in (i + 1)..(Len(s) + 1) :
    /\ j = Len(s) + 1 \/ Dash5At(s, j)
    /\ \A t \in (i + 1)..(j - 1) : ~Dash5At(s, t)

RECURSIVE StripTags(_, _)
\* pem.replace(/-----.*-----/g, '') from index i on ('.*' is greedy); where no
\* match starts, the text up to the next '-----' is kept
StripTags(s, i) ==
  IF i > Len(s) THEN <<>>
  ELSE IF Dash5At(s, i) /\ Closers(s, i) # {}
       THEN StripTags(s, SetMax(Closers(s, i)) + 5)
       ELSE SubSeq(s, i, NextDash5(s, i) - 1) \o StripTags(s, NextDash5(s, i))

pemToBase64(pem) ==
  SelectSeq(StripTags(pem, 1), LAMBDA c : ~IsSpace(c))

(* ----------------------------- TextEncoder ------------------------------ *)
IsHighSurrogate(c) == c >= 55296 /\ c <= 56319
IsLowSurrogate(c) == c >= 56320 /\ c <= 57343

RECURSIVE Utf8(_)
\* new TextEncoder().encode(s): a lone surrogate becomes U+FFFD (EF BF BD)
Utf8(s) ==
  IF Len(s) = 0 THEN <<>>
  ELSE LET c == s[1] IN
    IF c < 128 THEN <<c>> \o Utf8(Tail(s))
    ELSE IF c < 2048 THEN <<192 + (c \div 64), 128 + (c % 64)>> \o Utf8(Tail(s))
    ELSE IF IsHighSurrogate(c) /\ Len(s) >= 2 /\ IsLowSurrogate(s[2]) THEN
      LET cp == 65536 + (c - 55296) * 1024 + (s[2] - 56320)
      IN <<240 + (cp \div 262144), 128 + ((cp \div 4096) % 64),
           128 + ((cp \div 64) % 64), 128 + (cp % 64)>>
         \o Utf8(SubSeq(s, 3, Len(s)))
    ELSE IF IsHighSurrogate(c) \/ IsLowSurrogate(c) THEN
      <<239, 191, 189>> \o Utf8(Tail(s))
    ELSE <<224 + (c \div 4096), 128 + ((c \div 64) % 64), 128 + (c % 64)>>
         \o Utf8(Tail(s))

(* ------------------------ the cryptographic provider ------------------- *)
(* crypto.subtle, idealised.  A key pair is its number k >= 1 (0 is null); *)
(* both handles of pair k carry k.  The encodings of a key are two bytes:  *)
(* the DER SEQUENCE tag 0x30 and the pair number (private: + 0x80).  A     *)
(* signature is determined by exactly the signing pair and the signed      *)
(* bytes (RSASSA-PKCS1-v1_5 is deterministic), and verifies under no other *)
(* pair and for no other bytes.                                            *)
Spki(k) == <<48, k>>
Pkcs8(k) == <<48, 128 + k>>

\* crypto.subtle.importKey('spki', buf, ...): DataError on a malformed key
importKey(buf) ==
  IF Len(buf) = 2 /\ buf[1] = 48 /\ buf[2] >= 1 /\ buf[2] <= 127
  THEN [ok |-> TRUE, key |-> buf[2], err |-> ""]
  ELSE [ok |-> FALSE, key |-> 0, err |-> "DataError"]

signMessage(privateKey, data) == <<privateKey>> \o data

verifySignature(publicKey, signature, data) == signature = <<publicKey>> \o data

exportPublicKeyToPEM(publicKey) == pemEncode(bufToBase64(Spki(publicKey)), PublicKeyTag)

exportPrivateKeyToPEM(privateKey) == pemEncode(bufToBase64(Pkcs8(privateKey)), PrivateKeyTag)

\* importPublicKeyFromPEM: the decode runs before the provider is called
importPublicKeyFromPEM(pem) ==
  LET buf == base64ToBuf(pemToBase64(pem))
  IN IF buf.ok THEN importKey(buf.val)
     ELSE [ok |-> FALSE, key |-> 0, err |-> buf.err]

(* ------------------------------- state --------------------------------- *)
VARIABLES
  privKeyA, pubKeyA,      \* issuer key handles (0 = null)
  privPemA, pubPemA,      \* issuer PEM texts
  pubKeyB, pubPemB,       \* verifier's imported key (0 = null) and PEM text
  mensaje,                \* current message text
  originalMensaje,        \* snapshot of the message
  firmaB64,               \* signature text
  verificacion,           \* verification result line
  calls,                  \* handler calls suspended at an await, oldest first
  nextKey,                \* number of key pairs the provider has produced
  firmado,                \* history: what firmaB64 is a signature of
  pubKeyBDe,              \* history: the PEM text pubKeyB was imported from
  acciones,               \* number of user actions (clicks and edits) so far
  lastVerify,             \* history: the handleVerificar call that finished in the last step
  cx, ctag,               \* CodecSpec: the Base64 body and the tag given to pemEncode
  cpem,                   \* CodecSpec: the armored text (or the exception)
  creflow,                \* CodecSpec: how the armored text was re-flowed
  cout,                   \* CodecSpec: what pemToBase64 returned
  cfase                   \* CodecSpec: idle, input, armored, reflowed, unarmored

flowVars == <<privKeyA, pubKeyA, privPemA, pubPemA, pubKeyB, pubPemB, mensaje,
              originalMensaje, firmaB64, verificacion, calls, nextKey, firmado,
              pubKeyBDe, lastVerify, acciones>>
codecVars == <<cx, ctag, cpem, creflow, cout, cfase>>
vars == <<privKeyA, pubKeyA, privPemA, pubPemA, pubKeyB, pubPemB, mensaje,
          originalMensaje, firmaB64, verificacion, calls, nextKey, firmado,
          pubKeyBDe, lastVerify, acciones, cx, ctag, cpem, creflow, cout, cfase>>

\* the lines setVerificacion shows
FirmaValida == "Firma valida - El mensaje es autentico."
AtaqueDetectado == "ATAQUE DETECTADO - El mensaje fue modificado."
FirmaInvalida == "Firma invalida - Clave incorrecta o mensaje alterado."
ErrorVerificando(message) == "Error verificando: " \o message

NoFirma == [key |-> 0, msg |-> <<>>]
\* history: the handleVerificar call clicked after this one, if any
NoLuego == [hay |-> FALSE, key |-> 0, firma |-> <<>>, msg |-> <<>>, orig |-> <<>>]
\* history: what a handleVerificar call found when it was clicked
NoVerify == [fin |-> "", key |-> 0, pem |-> <<>>, firma |-> <<>>,
             firmado |-> NoFirma, msg |-> <<>>, orig |-> <<>>,
             luego |-> NoLuego]
\* a suspended call: its handler, its await and its local values (pem and
\* visto are history)
NoCall == [op |-> "", pc |-> "", key |-> 0, data |-> <<>>, sig |-> <<>>,
           msg |-> <<>>, orig |-> <<>>, pem |-> <<>>, visto |-> NoVerify]

\* what the user types or pastes into the text areas
MensajesTecleados == {<<104>>, <<105>>}                   \* 'h', 'i'
PemATecleados == {<<>>}
\* '!', 'AAAA' and the PEM of the public key of someone else
PemBTecleados == {<<33>>, <<65, 65, 65, 65>>, exportPublicKeyToPEM(MaxKeys + 1).val}
FirmasTecleadas == {<<33>>, <<65, 65, 65, 65>>}             \* '!', 'AAAA'

RemoveAt(q, i) == SubSeq(q, 1, i - 1) \o SubSeq(q, i + 1, Len(q))

RECURSIVE Marcas(_)
\* how many attack markers end the text
Marcas(m) ==
  IF Len(m) >= Len(Marcador)
     /\ SubSeq(m, Len(m) - Len(Marcador) + 1, Len(m)) = Marcador
  THEN 1 + Marcas(SubSeq(m, 1, Len(m) - Len(Marcador)))
  ELSE 0

FlowInit ==
  /\ privKeyA = 0 /\ pubKeyA = 0
  /\ privPemA = <<>> /\ pubPemA = <<>>
  /\ pubKeyB = 0 /\ pubPemB = <<>>
  /\ mensaje = <<>> /\ originalMensaje = <<>>
  /\ firmaB64 = <<>>
  /\ verificacion = ""
  /\ calls = <<>>
  /\ nextKey = 0
  /\ firmado = NoFirma
  /\ pubKeyBDe = <<>>
  /\ lastVerify = NoVerify
  /\ acciones = 0

CodecIdle ==
  /\ cx = <<>> /\ ctag = <<>> /\ cpem = Ok(<<>>) /\ creflow = "none"
  /\ cout = <<>> /\ cfase = "idle"

Init == FlowInit /\ CodecIdle

(* --------------------------- handleGenerarClaves ----------------------- *)
\* click: the handler runs up to 'await generateKeyPair()'; at most n clicks
GenerarStartHasta(n) ==
  /\ acciones < MaxAcciones
  /\ Len(calls) < MaxInflight
  /\ nextKey < n
  /\ nextKey' = nextKey + 1
  /\ calls' = Append(calls, [NoCall EXCEPT !.op = "generar",
                                           !.pc = "generateKeyPair",
                                           !.key = nextKey + 1])
  /\ lastVerify' = NoVerify
  /\ acciones' = acciones + 1
  /\ UNCHANGED <<privKeyA, pubKeyA, privPemA, pubPemA, pubKeyB, pubPemB,
                 mensaje, originalMensaje, firmaB64, verificacion, firmado,
                 pubKeyBDe, codecVars>>

GenerarStart == GenerarStartHasta(MaxKeys)

\* GenerarPair that also clears the stored signature
GenerarPairBorraFirma(i) ==
  /\ i \in 1..Len(calls)
  /\ calls[i].op = "generar" /\ calls[i].pc = "generateKeyPair"
  /\ privKeyA' = calls[i].key
  /\ pubKeyA' = calls[i].key
  /\ firmaB64' = <<>>
  /\ firmado' = NoFirma
  /\ calls' = [calls EXCEPT ![i].pc = "exportKey"]
  /\ lastVerify' = NoVerify
  /\ UNCHANGED <<privPemA, pubPemA, pubKeyB, pubPemB, mensaje, originalMensaje,
                 verificacion, nextKey, pubKeyBDe,
                 acciones, codecVars>>

\* the pair arrives: setPrivKeyA, setPubKeyA, then 'await exportPrivateKeyToPEM'
GenerarPair(i) ==
  /\ i \in 1..Len(calls)
  /\ calls[i].op = "generar" /\ calls[i].pc = "generateKeyPair"
  /\ privKeyA' = calls[i].key
  /\ pubKeyA' = calls[i].key
  /\ calls' = [calls EXCEPT ![i].pc = "exportKey"]
  /\ lastVerify' = NoVerify
  /\ UNCHANGED <<privPemA, pubPemA, pubKeyB, pubPemB, mensaje, originalMensaje,
                 firmaB64, verificacion, nextKey, firmado, pubKeyBDe,
                 acciones, codecVars>>

\* privPem and then pubPem arrive (two awaits with no setter between them):
\* setPrivPemA, setPubPemA, alert
GenerarPems(i) ==
  /\ i \in 1..Len(calls)
  /\ calls[i].op = "generar" /\ calls[i].pc = "exportKey"
  /\ privPemA' = exportPrivateKeyToPEM(calls[i].key).val
  /\ pubPemA' = exportPublicKeyToPEM(calls[i].key).val
  /\ calls' = RemoveAt(calls, i)
  /\ lastVerify' = NoVerify
  /\ UNCHANGED <<privKeyA, pubKeyA, pubKeyB, pubPemB, mensaje, originalMensaje,
                 firmaB64, verificacion, nextKey, firmado, pubKeyBDe,
                 acciones, codecVars>>

(* ------------------------------ handleFirmar --------------------------- *)
\* click: guards, setOriginalMensaje(mensaje), encode, up to 'await signMessage'
FirmarStart ==
  /\ acciones < MaxAcciones
  /\ Len(calls) < MaxInflight
  /\ privKeyA # 0
  /\ mensaje # <<>>
  /\ originalMensaje' = mensaje
  /\ calls' = Append(calls, [NoCall EXCEPT !.op = "firmar", !.pc = "signMessage",
                                           !.key = privKeyA,
                                           !.data = Utf8(mensaje),
                                           !.msg = mensaje,
                                           !.orig = originalMensaje])
  /\ lastVerify' = NoVerify
  /\ acciones' = acciones + 1
  /\ UNCHANGED <<privKeyA, pubKeyA, privPemA, pubPemA, pubKeyB, pubPemB,
                 mensaje, firmaB64, verificacion, nextKey, firmado, pubKeyBDe, codecVars>>

\* sig arrives: setFirmaB64(bufToBase64(sig)), alert
FirmarSig(i) ==
  /\ i \in 1..Len(calls)
  /\ calls[i].op = "firmar"
  /\ firmaB64' = bufToBase64(signMessage(calls[i].key, calls[i].data))
  /\ firmado' = [key |-> calls[i].key, msg |-> calls[i].msg]
  /\ calls' = RemoveAt(calls, i)
  /\ lastVerify' = NoVerify
  /\ UNCHANGED <<privKeyA, pubKeyA, privPemA, pubPemA, pubKeyB, pubPemB,
                 mensaje, originalMensaje, verificacion, nextKey, pubKeyBDe, acciones, codecVars>>

(* ----------------------- handleImportarPubEnReceptor ------------------- *)
\* click: guard, the PEM decodes, up to the await of crypto.subtle.importKey
ImportarStart ==
  /\ acciones < MaxAcciones
  /\ Len(calls) < MaxInflight
  /\ pubPemB # <<>>
  /\ base64ToBuf(pemToBase64(pubPemB)).ok
  /\ calls' = Append(calls, [NoCall EXCEPT !.op = "importar", !.pc = "importKey",
                                           !.data = base64ToBuf(pemToBase64(pubPemB)).val,
                                           !.pem = pubPemB])
  /\ lastVerify' = NoVerify
  /\ acciones' = acciones + 1
  /\ UNCHANGED <<privKeyA, pubKeyA, privPemA, pubPemA, pubKeyB, pubPemB,
                 mensaje, originalMensaje, firmaB64, verificacion, nextKey,
                 firmado, pubKeyBDe, codecVars>>

\* click: guard passes, base64ToBuf throws inside importPublicKeyFromPEM; the
\* catch block alerts and nothing is stored
ImportarThrow ==
  /\ acciones < MaxAcciones
  /\ pubPemB # <<>>
  /\ ~base64ToBuf(pemToBase64(pubPemB)).ok
  /\ lastVerify' = NoVerify
  /\ acciones' = acciones + 1
  /\ UNCHANGED <<privKeyA, pubKeyA, privPemA, pubPemA, pubKeyB, pubPemB,
                 mensaje, originalMensaje, firmaB64, verificacion, calls,
                 nextKey, firmado, pubKeyBDe, codecVars>>

\* imported arrives: setPubKeyB(imported), alert
ImportarKey(i) ==
  /\ i \in 1..Len(calls)
  /\ calls[i].op = "importar"
  /\ importKey(calls[i].data).ok
  /\ pubKeyB' = importKey(calls[i].data).key
  /\ pubKeyBDe' = calls[i].pem
  /\ calls' = RemoveAt(calls, i)
  /\ lastVerify' = NoVerify
  /\ UNCHANGED <<privKeyA, pubKeyA, privPemA, pubPemA, pubPemB, mensaje,
                 originalMensaje, firmaB64, verificacion, nextKey, firmado, acciones, codecVars>>

\* importKey rejects the bytes: the catch block alerts and nothing is stored
ImportarReject(i) ==
  /\ i \in 1..Len(calls)
  /\ calls[i].op = "importar"
  /\ ~importKey(calls[i].data).ok
  /\ calls' = RemoveAt(calls, i)
  /\ lastVerify' = NoVerify
  /\ UNCHANGED <<privKeyA, pubKeyA, privPemA, pubPemA, pubKeyB, pubPemB,
                 mensaje, originalMensaje, firmaB64, verificacion, nextKey,
                 firmado, pubKeyBDe, acciones, codecVars>>

(* ----------------------------- handleVerificar ------------------------- *)
\* Veredicto with the two lines of the ternary swapped
VeredictoInvertido(esValido, mensajeVisto, originalVisto) ==
  IF ~esValido /\ mensajeVisto # originalVisto THEN AtaqueDetectado
  ELSE IF esValido THEN FirmaInvalida
  ELSE FirmaValida

\* Veredicto with === for !==
VeredictoComparacionInvertida(esValido, mensajeVisto, originalVisto) ==
  IF ~esValido /\ mensajeVisto = originalVisto THEN AtaqueDetectado
  ELSE IF esValido THEN FirmaValida
  ELSE FirmaInvalida

\* Veredicto with || for &&
VeredictoO(esValido, mensajeVisto, originalVisto) ==
  IF ~esValido \/ mensajeVisto # originalVisto THEN AtaqueDetectado
  ELSE IF esValido THEN FirmaValida
  ELSE FirmaInvalida

\* lines 153-162: the line shown for a finished check
Veredicto(esValido, mensajeVisto, originalVisto) ==
  IF ~esValido /\ mensajeVisto # originalVisto THEN AtaqueDetectado
  ELSE IF esValido THEN FirmaValida
  ELSE FirmaInvalida

VerificarGuards == pubKeyB # 0 /\ firmaB64 # <<>>

\* what this call of the handler sees (the values of its render)
VerificarVisto(fin) ==
  [fin |-> fin, key |-> pubKeyB, pem |-> pubKeyBDe, firma |-> firmaB64,
   firmado |-> firmado, msg |-> mensaje, orig |-> originalMensaje,
   luego |-> NoLuego]

\* history: the suspended handleVerificar calls learn that a later one was
\* clicked, and what it saw
Relevados ==
  [i \in 1..Len(calls) |->
     IF calls[i].op = "verificar"
     THEN [calls[i] EXCEPT !.visto.luego =
             [hay |-> TRUE, key |-> pubKeyB, firma |-> firmaB64,
              msg |-> mensaje, orig |-> originalMensaje]]
     ELSE calls[i]]

\* VerificarStart checking against the issuer's own pubKeyA
VerificarStartClaveA ==
  /\ acciones < MaxAcciones
  /\ Len(calls) < MaxInflight
  /\ VerificarGuards
  /\ base64ToBuf(firmaB64).ok
  /\ calls' = Append(Relevados, [NoCall EXCEPT !.op = "verificar",
                                               !.pc = "verifySignature",
                                               !.key = pubKeyA,
                                               !.data = Utf8(mensaje),
                                               !.sig = base64ToBuf(firmaB64).val,
                                               !.msg = mensaje,
                                               !.orig = originalMensaje,
                                               !.visto = VerificarVisto("")])
  /\ lastVerify' = NoVerify
  /\ acciones' = acciones + 1
  /\ UNCHANGED <<privKeyA, pubKeyA, privPemA, pubPemA, pubKeyB, pubPemB,
                 mensaje, originalMensaje, firmaB64, verificacion, nextKey,
                 firmado, pubKeyBDe, codecVars>>

\* click: guards, encode, base64ToBuf succeeds, up to 'await verifySignature'
VerificarStart ==
  /\ acciones < MaxAcciones
  /\ Len(calls) < MaxInflight
  /\ VerificarGuards
  /\ base64ToBuf(firmaB64).ok
  /\ calls' = Append(Relevados, [NoCall EXCEPT !.op = "verificar",
                                               !.pc = "verifySignature",
                                               !.key = pubKeyB,
                                               !.data = Utf8(mensaje),
                                               !.sig = base64ToBuf(firmaB64).val,
                                               !.msg = mensaje,
                                               !.orig = originalMensaje,
                                               !.visto = VerificarVisto("")])
  /\ lastVerify' = NoVerify
  /\ acciones' = acciones + 1
  /\ UNCHANGED <<privKeyA, pubKeyA, privPemA, pubPemA, pubKeyB, pubPemB,
                 mensaje, originalMensaje, firmaB64, verificacion, nextKey,
                 firmado, pubKeyBDe, codecVars>>

\* click: base64ToBuf (line 147, before the try) throws; the handler's
\* promise rejects and no setter runs
VerificarThrow ==
  /\ acciones < MaxAcciones
  /\ VerificarGuards
  /\ ~base64ToBuf(firmaB64).ok
  /\ lastVerify' = VerificarVisto("thrown")
  /\ calls' = Relevados
  /\ acciones' = acciones + 1
  /\ UNCHANGED <<privKeyA, pubKeyA, privPemA, pubPemA, pubKeyB, pubPemB,
                 mensaje, originalMensaje, firmaB64, verificacion,
                 nextKey, firmado, pubKeyBDe, codecVars>>

\* esValido arrives: setVerificacion
VerificarValido(i) ==
  /\ i \in 1..Len(calls)
  /\ calls[i].op = "verificar"
  /\ verificacion' = Veredicto(verifySignature(calls[i].key, calls[i].sig, calls[i].data),
                               calls[i].msg, calls[i].orig)
  /\ lastVerify' = [calls[i].visto EXCEPT !.fin = "shown"]
  /\ calls' = RemoveAt(calls, i)
  /\ UNCHANGED <<privKeyA, pubKeyA, privPemA, pubPemA, pubKeyB, pubPemB,
                 mensaje, originalMensaje, firmaB64, nextKey, firmado,
                 pubKeyBDe, acciones, codecVars>>

(* ------------------------- text areas and buttons ---------------------- *)
\* message textarea onChange (lines 276-279)
EditMensaje(v) ==
  /\ acciones < MaxAcciones
  /\ v \in MensajesTecleados
  /\ mensaje' = v
  /\ originalMensaje' = v
  /\ lastVerify' = NoVerify
  /\ acciones' = acciones + 1
  /\ UNCHANGED <<privKeyA, pubKeyA, privPemA, pubPemA, pubKeyB, pubPemB,
                 firmaB64, verificacion, calls, nextKey, firmado, pubKeyBDe, codecVars>>

\* SimularAtaque that also moves the snapshot (as the message box does)
SimularAtaqueConInstantanea ==
  /\ acciones < MaxAcciones
  /\ Marcas(mensaje) < MaxTamper
  /\ mensaje' = mensaje \o Marcador
  /\ originalMensaje' = mensaje \o Marcador
  /\ lastVerify' = NoVerify
  /\ acciones' = acciones + 1
  /\ UNCHANGED <<privKeyA, pubKeyA, privPemA, pubPemA, pubKeyB, pubPemB,
                 firmaB64, verificacion, calls, nextKey,
                 firmado, pubKeyBDe, codecVars>>

\* 'Simular Ataque' onClick (lines 308-311)
SimularAtaque ==
  /\ acciones < MaxAcciones
  /\ Marcas(mensaje) < MaxTamper
  /\ mensaje' = mensaje \o Marcador
  /\ lastVerify' = NoVerify
  /\ acciones' = acciones + 1
  /\ UNCHANGED <<privKeyA, pubKeyA, privPemA, pubPemA, pubKeyB, pubPemB,
                 originalMensaje, firmaB64, verificacion, calls, nextKey,
                 firmado, pubKeyBDe, codecVars>>

\* 'copy public key to the verifier' onClick (lines 366-371)
CopiarPubAB ==
  /\ acciones < MaxAcciones
  /\ pubPemA # <<>>
  /\ pubPemB' = pubPemA
  /\ lastVerify' = NoVerify
  /\ acciones' = acciones + 1
  /\ UNCHANGED <<privKeyA, pubKeyA, privPemA, pubPemA, pubKeyB, mensaje,
                 originalMensaje, firmaB64, verificacion, calls, nextKey,
                 firmado, pubKeyBDe, codecVars>>

\* pubPemA textarea onChange (line 234)
EditPubPemA(v) ==
  /\ acciones < MaxAcciones
  /\ v \in PemATecleados
  /\ pubPemA' = v
  /\ lastVerify' = NoVerify
  /\ acciones' = acciones + 1
  /\ UNCHANGED <<privKeyA, pubKeyA, privPemA, pubKeyB, pubPemB, mensaje,
                 originalMensaje, firmaB64, verificacion, calls, nextKey,
                 firmado, pubKeyBDe, codecVars>>

\* privPemA textarea onChange (line 254)
EditPrivPemA(v) ==
  /\ acciones < MaxAcciones
  /\ v \in PemATecleados
  /\ privPemA' = v
  /\ lastVerify' = NoVerify
  /\ acciones' = acciones + 1
  /\ UNCHANGED <<privKeyA, pubKeyA, pubPemA, pubKeyB, pubPemB, mensaje,
                 originalMensaje, firmaB64, verificacion, calls, nextKey,
                 firmado, pubKeyBDe, codecVars>>

\* pubPemB textarea onChange (line 420)
EditPubPemB(v) ==
  /\ acciones < MaxAcciones
  /\ v \in PemBTecleados
  /\ pubPemB' = v
  /\ lastVerify' = NoVerify
  /\ acciones' = acciones + 1
  /\ UNCHANGED <<privKeyA, pubKeyA, privPemA, pubPemA, pubKeyB, mensaje,
                 originalMensaje, firmaB64, verificacion, calls, nextKey,
                 firmado, pubKeyBDe, codecVars>>

\* verifier's signature textarea onChange (line 442)
EditFirmaB64(v) ==
  /\ acciones < MaxAcciones
  /\ v \in FirmasTecleadas
  /\ firmaB64' = v
  /\ firmado' = NoFirma
  /\ lastVerify' = NoVerify
  /\ acciones' = acciones + 1
  /\ UNCHANGED <<privKeyA, pubKeyA, privPemA, pubPemA, pubKeyB, pubPemB,
                 mensaje, originalMensaje, verificacion, calls, nextKey,
                 pubKeyBDe, codecVars>>

Next ==
  \/ GenerarStart
  \/ \E i \in 1..MaxInflight : GenerarPair(i)
  \/ \E i \in 1..MaxInflight : GenerarPems(i)
  \/ FirmarStart
  \/ \E i \in 1..MaxInflight : FirmarSig(i)
  \/ ImportarStart
  \/ ImportarThrow
  \/ \E i \in 1..MaxInflight : ImportarKey(i)
  \/ \E i \in 1..MaxInflight : ImportarReject(i)
  \/ VerificarStart
  \/ VerificarThrow
  \/ \E i \in 1..MaxInflight : VerificarValido(i)
  \/ \E v \in MensajesTecleados : EditMensaje(v)
  \/ SimularAtaque
  \/ CopiarPubAB
  \/ \E v \in PemATecleados : EditPubPemA(v)
  \/ \E v \in PemATecleados : EditPrivPemA(v)
  \/ \E v \in PemBTecleados : EditPubPemB(v)
  \/ \E v \in FirmasTecleadas : EditFirmaB64(v)

Spec == Init /\ [][Next]_vars

(* ------------------- provider failures (SpecFallos) -------------------- *)
\* generateKeyPair or an exportKey rejects: the catch block alerts; what was
\* set before the failing await stays set
GenerarReject(i) ==
  /\ i \in 1..Len(calls)
  /\ calls[i].op = "generar"
  /\ calls' = RemoveAt(calls, i)
  /\ lastVerify' = NoVerify
  /\ UNCHANGED <<privKeyA, pubKeyA, privPemA, pubPemA, pubKeyB, pubPemB,
                 mensaje, originalMensaje, firmaB64, verificacion, nextKey,
                 firmado, pubKeyBDe, acciones, codecVars>>

\* signMessage rejects: the catch block alerts
FirmarReject(i) ==
  /\ i \in 1..Len(calls)
  /\ calls[i].op = "firmar"
  /\ calls' = RemoveAt(calls, i)
  /\ lastVerify' = NoVerify
  /\ UNCHANGED <<privKeyA, pubKeyA, privPemA, pubPemA, pubKeyB, pubPemB,
                 mensaje, originalMensaje, firmaB64, verificacion, nextKey,
                 firmado, pubKeyBDe, acciones, codecVars>>

\* verifySignature rejects: setVerificacion('Error verificando: ' + err.message)
VerificarReject(i) ==
  /\ i \in 1..Len(calls)
  /\ calls[i].op = "verificar"
  /\ verificacion' = ErrorVerificando("OperationError")
  /\ lastVerify' = [calls[i].visto EXCEPT !.fin = "error"]
  /\ calls' = RemoveAt(calls, i)
  /\ UNCHANGED <<privKeyA, pubKeyA, privPemA, pubPemA, pubKeyB, pubPemB,
                 mensaje, originalMensaje, firmaB64, nextKey, firmado,
                 pubKeyBDe, acciones, codecVars>>

Fallos ==
  \/ \E i \in 1..MaxInflight : GenerarReject(i)
  \/ \E i \in 1..MaxInflight : FirmarReject(i)
  \/ \E i \in 1..MaxInflight : VerificarReject(i)

NextFallos == Next \/ Fallos

\* the component on a provider whose promises may reject
SpecFallos == Init /\ [][NextFallos]_vars

(* ------------- regeneration: buttons and message box only -------------- *)
\* 'Generar' clicked up to MaxRegen times
Regenerar == GenerarStartHasta(MaxRegen)

NextRegenerar ==
  \/ Regenerar
  \/ \E i \in 1..MaxInflight : GenerarPair(i)
  \/ \E i \in 1..MaxInflight : GenerarPems(i)
  \/ FirmarStart
  \/ \E i \in 1..MaxInflight : FirmarSig(i)
  \/ ImportarStart
  \/ \E i \in 1..MaxInflight : ImportarKey(i)
  \/ VerificarStart
  \/ \E i \in 1..MaxInflight : VerificarValido(i)
  \/ \E v \in MensajesTecleados : EditMensaje(v)
  \/ SimularAtaque
  \/ CopiarPubAB

\* the component with the issuer regenerating keys; nothing is typed into the
\* PEM and signature boxes
SpecRegenerar == Init /\ [][NextRegenerar]_vars

(* ------- the handlers called whatever the buttons' disabled state ------- *)
\* FirmarNoPasa with setOriginalMensaje(mensaje) ahead of the guards
FirmarNoPasaConInstantanea ==
  /\ acciones < MaxAcciones
  /\ privKeyA = 0 \/ mensaje = <<>>
  /\ originalMensaje' = mensaje
  /\ lastVerify' = [NoVerify EXCEPT !.fin = "firmar-guard"]
  /\ acciones' = acciones + 1
  /\ UNCHANGED <<privKeyA, pubKeyA, privPemA, pubPemA, pubKeyB, pubPemB,
                 mensaje, firmaB64, verificacion, calls,
                 nextKey, firmado, pubKeyBDe, codecVars>>

\* handleFirmar, lines 110-111: a guard fails, alert, return
FirmarNoPasa ==
  /\ acciones < MaxAcciones
  /\ privKeyA = 0 \/ mensaje = <<>>
  /\ lastVerify' = [NoVerify EXCEPT !.fin = "firmar-guard"]
  /\ acciones' = acciones + 1
  /\ UNCHANGED <<privKeyA, pubKeyA, privPemA, pubPemA, pubKeyB, pubPemB,
                 mensaje, originalMensaje, firmaB64, verificacion, calls,
                 nextKey, firmado, pubKeyBDe, codecVars>>

\* handleImportarPubEnReceptor, line 129: the guard fails, alert, return
ImportarNoPasa ==
  /\ acciones < MaxAcciones
  /\ pubPemB = <<>>
  /\ lastVerify' = [NoVerify EXCEPT !.fin = "importar-guard"]
  /\ acciones' = acciones + 1
  /\ UNCHANGED <<privKeyA, pubKeyA, privPemA, pubPemA, pubKeyB, pubPemB,
                 mensaje, originalMensaje, firmaB64, verificacion, calls,
                 nextKey, firmado, pubKeyBDe, codecVars>>

\* handleVerificar, lines 142-143: a guard fails, alert, return
VerificarNoPasa ==
  /\ acciones < MaxAcciones
  /\ ~VerificarGuards
  /\ lastVerify' = [NoVerify EXCEPT !.fin = "verificar-guard"]
  /\ acciones' = acciones + 1
  /\ UNCHANGED <<privKeyA, pubKeyA, privPemA, pubPemA, pubKeyB, pubPemB,
                 mensaje, originalMensaje, firmaB64, verificacion, calls,
                 nextKey, firmado, pubKeyBDe, codecVars>>

NoPasan ==
  \/ FirmarNoPasa
  \/ ImportarNoPasa
  \/ VerificarNoPasa

NextDirecto == NextRegenerar \/ NoPasan

\* the component driven by its buttons and its message box, with the handlers
\* also called when their button is disabled
SpecDirecto == Init /\ [][NextDirecto]_vars

(* ------------------------- the codec on its own ------------------------ *)
\* a Base64 text of n characters; variant 1 ends in '=' padding
B64Text(n, variant) ==
  [i \in 1..n |->
     IF variant = 1 /\ i = n /\ n % 4 = 0 THEN 61
     ELSE B64Char((variant * 31 + i * 5) % 64)]

B64Inputs == {B64Text(n, v) : n \in 0..MaxB64Len, v \in {0, 1}}
Tags == {PublicKeyTag, PrivateKeyTag}
Reflows == {"spaces", "blank", "trailing", "narrow", "wide"}

RECURSIVE ReplaceLF(_, _)
\* every line break of the text replaced by the text w
ReplaceLF(s, w) ==
  IF \A i \in 1..Len(s) : s[i] # 10 THEN s
  ELSE LET j == CHOOSE i \in 1..Len(s) :
                  s[i] = 10 /\ \A t \in 1..(i - 1) : s[t] # 10
       IN SubSeq(s, 1, j - 1) \o w \o ReplaceLF(SubSeq(s, j + 1, Len(s)), w)

RECURSIVE Chunks(_, _)
\* the text cut into lines of w characters
Chunks(s, w) ==
  IF Len(s) <= w THEN <<s>>
  ELSE <<SubSeq(s, 1, w)>> \o Chunks(SubSeq(s, w + 1, Len(s)), w)

\* the armored text of body x with its body lines cut at w characters
Rewrapped(x, tag, w) ==
  BeginTag \o tag \o Dash5 \o LF \o Join(Chunks(x, w), LF) \o LF
  \o EndTag \o tag \o Dash5

\* a re-flowing of the white space of the armored text pem of body x
Reflowed(r, pem, x, tag) ==
  IF r = "spaces" THEN ReplaceLF(pem, <<32>>)              \* all on one line
  ELSE IF r = "blank" THEN ReplaceLF(pem, <<10, 10>>)      \* blank lines
  ELSE IF r = "trailing" THEN ReplaceLF(pem, <<32, 9, 13, 10>>) \o <<32, 10>>
  ELSE IF r = "narrow" THEN Rewrapped(x, tag, 7)
  ELSE Rewrapped(x, tag, WrapWidth + 12)

CodecInit ==
  /\ FlowInit
  /\ cx \in B64Inputs /\ ctag \in Tags
  /\ cpem = Ok(<<>>) /\ creflow = "none" /\ cout = <<>> /\ cfase = "input"

\* pemEncode(cx, ctag)
Armar ==
  /\ cfase = "input"
  /\ cpem' = pemEncode(cx, ctag)
  /\ cfase' = "armored"
  /\ UNCHANGED <<cx, ctag, creflow, cout, flowVars>>

\* the text is re-flowed on its way to the verifier
Refluir(r) ==
  /\ cfase = "armored"
  /\ cpem.ok
  /\ r \in Reflows
  /\ cpem' = Ok(Reflowed(r, cpem.val, cx, ctag))
  /\ creflow' = r
  /\ cfase' = "reflowed"
  /\ UNCHANGED <<cx, ctag, cout, flowVars>>

\* pemToBase64(cpem)
Desarmar ==
  /\ cfase \in {"armored", "reflowed"}
  /\ cpem.ok
  /\ cout' = pemToBase64(cpem.val)
  /\ cfase' = "unarmored"
  /\ UNCHANGED <<cx, ctag, cpem, creflow, flowVars>>

CodecNext ==
  \/ Armar
  \/ \E r \in Reflows : Refluir(r)
  \/ Desarmar

CodecSpec == CodecInit /\ [][CodecNext]_vars

(* ============================== properties ============================= *)
\* a handleVerificar call that passed its guards finished in the last step
Verificado == lastVerify.fin \in {"shown", "thrown", "error"}

\* the stored signature is the one handleFirmar made with pair k
FirmadoPor(k) == lastVerify.firmado.key = k

\* the verifier's key was imported from the PEM text exported for pair k
ImportadoDeExportado(k) == lastVerify.pem = exportPublicKeyToPEM(k).val

RECURSIVE ConMarcas(_, _)
\* the text m after n clicks on 'Simular Ataque'
ConMarcas(m, n) == IF n = 0 THEN m ELSE ConMarcas(m, n - 1) \o Marcador

\* the raw cryptographic check the finished call made
CheckVisto ==
  verifySignature(lastVerify.key, base64ToBuf(lastVerify.firma).val,
                  Utf8(lastVerify.msg))

\* C1: after sign on m0, once the message text is any m1 # m0 (by 'Simular
\* Ataque' or by typing) with the signature kept and the signing pair's
\* public key imported, verify shows the attack line and never the invalid one.
C1_TamperDetection ==
  \A k \in 1..MaxKeys :
    (Verificado /\ FirmadoPor(k) /\ lastVerify.key = k
     /\ lastVerify.msg # lastVerify.firmado.msg)
    => verificacion = AtaqueDetectado

\* C2: generateKeys, sign(m) for a non-empty m, the exported public-key text
\* imported by the verifier, verify with message and signature unchanged:
\* the result is the authentic line.
C2_SignVerifyRoundTrip ==
  \A k \in 1..MaxKeys :
    (Verificado /\ FirmadoPor(k) /\ ImportadoDeExportado(k)
     /\ lastVerify.msg = lastVerify.firmado.msg /\ lastVerify.msg # <<>>)
    => (lastVerify.fin = "shown" /\ verificacion = FirmaValida)

C2_Witness ==
  /\ lastVerify.fin = "shown"
  /\ FirmadoPor(1) /\ ImportadoDeExportado(1)
  /\ lastVerify.msg = lastVerify.firmado.msg /\ lastVerify.msg # <<>>
  /\ verificacion = FirmaValida

\* C3: verify invoked with an imported key and a non-empty signature text that
\* is not valid Base64 ends with the error line stored as the result.
C3_BadSignatureText ==
  (Verificado /\ ~base64ToBuf(lastVerify.firma).ok)
  => verificacion = ErrorVerificando(base64ToBuf(lastVerify.firma).err)

\* C4: generateKeys, sign(m), one or more 'Simular Ataque' clicks, the exported
\* public key imported, verify with the original signature: the attack line.
C4_MitmScenario ==
  \A k \in 1..MaxKeys : \A n \in 1..MaxTamper :
    (Verificado /\ FirmadoPor(k) /\ ImportadoDeExportado(k)
     /\ lastVerify.orig = lastVerify.firmado.msg
     /\ lastVerify.msg = ConMarcas(lastVerify.firmado.msg, n))
    => (lastVerify.fin = "shown" /\ verificacion = AtaqueDetectado)

C4_Witness ==
  /\ lastVerify.fin = "shown"
  /\ FirmadoPor(1) /\ ImportadoDeExportado(1)
  /\ lastVerify.orig = lastVerify.firmado.msg
  /\ lastVerify.msg = ConMarcas(lastVerify.firmado.msg, 1)
  /\ verificacion = AtaqueDetectado

\* C5: the imported public key belongs to another pair than the one that made
\* the stored signature and the message equals the snapshot: the invalid line.
C5_WrongKeyRejection ==
  \A k \in 1..MaxKeys :
    (Verificado /\ FirmadoPor(k) /\ lastVerify.key # k
     /\ lastVerify.msg = lastVerify.orig)
    => (lastVerify.fin = "shown" /\ verificacion = FirmaInvalida)

C5_Witness ==
  /\ lastVerify.fin = "shown"
  /\ FirmadoPor(1) /\ lastVerify.key # 1
  /\ lastVerify.msg = lastVerify.orig
  /\ verificacion = FirmaInvalida

\* C6: for every verify call that reaches the check, the result is the
\* authentic line exactly when the check is true, the attack line exactly when
\* it is false and the message differs from the snapshot, the invalid line
\* exactly when it is false and the message equals the snapshot.
C6_OutcomeDerivation ==
  lastVerify.fin = "shown" =>
    /\ (verificacion = FirmaValida) <=> CheckVisto
    /\ (verificacion = AtaqueDetectado)
         <=> (~CheckVisto /\ lastVerify.msg # lastVerify.orig)
    /\ (verificacion = FirmaInvalida)
         <=> (~CheckVisto /\ lastVerify.msg = lastVerify.orig)

C6_Witness ==
  /\ lastVerify.fin = "shown"
  /\ ~CheckVisto
  /\ lastVerify.msg # lastVerify.orig
  /\ verificacion = AtaqueDetectado

\* C7: every re-flowing of the white space of an armored text unarmors to the
\* Base64 body, as the armored text itself does.
C7_WhitespaceTolerance ==
  (cfase = "unarmored" /\ creflow # "none") => cout = cx

\* C8: for every Base64 text x, the empty one included, and every tag,
\* pemToBase64(pemEncode(x, tag)) is x.
C8_ArmorRoundTrip ==
  /\ cfase = "armored" => cpem.ok
  /\ (cfase = "unarmored" /\ creflow = "none") => cout = cx

\* C9: at no point are two handler calls in progress at the same time.
C9_Serialized == Len(calls) <= 1

\* C10: 'Simular Ataque' turns the message m into m followed by
\* ' [MODIFIED BY ATTACK]'.
C10_MarkerLiteral ==
  [][SimularAtaque =>
       mensaje' = mensaje \o <<32, 91, 77, 79, 68, 73, 70, 73, 69, 68, 32, 66,
                               89, 32, 65, 84, 84, 65, 67, 75, 93>>]_vars

\* C10 as amended: 'Simular Ataque' turns the message m into m followed by
\* ' [MODIFICADO POR ATAQUE]'.
C10_MarkerLiteralAmended ==
  [][SimularAtaque =>
       mensaje' = mensaje \o <<32, 91, 77, 79, 68, 73, 70, 73, 67, 65, 68, 79,
                               32, 80, 79, 82, 32, 65, 84, 65, 81, 85, 69, 93>>]_vars

C10_Witness ==
  /\ Len(mensaje) >= 24
  /\ SubSeq(mensaje, Len(mensaje) - 23, Len(mensaje))
       = <<32, 91, 77, 79, 68, 73, 70, 73, 67, 65, 68, 79,
           32, 80, 79, 82, 32, 65, 84, 65, 81, 85, 69, 93>>

\* C11: a click on 'Simular Ataque' appends one marker to the message (so k
\* clicks append k markers) and leaves the snapshot, the signature, the
\* issuer's keys and PEM texts, the verifier's PEM text and key and the result
\* line as they were.
C11_TamperFrame ==
  [][SimularAtaque =>
       /\ mensaje' = mensaje \o Marcador
       /\ Marcas(mensaje') = Marcas(mensaje) + 1
       /\ UNCHANGED <<originalMensaje, firmaB64, privKeyA, pubKeyA, privPemA,
                      pubPemA, pubPemB, pubKeyB, verificacion>>]_vars

\* two clicks after a signature was stored
C11_Witness ==
  /\ firmaB64 # <<>>
  /\ originalMensaje = firmado.msg
  /\ mensaje = ConMarcas(originalMensaje, 2)

\* no call of handleGenerarClaves is suspended
SinGenerarEnCurso == \A i \in 1..Len(calls) : calls[i].op # "generar"

\* C12: whenever no generateKeys call is in progress, the issuer's two PEM
\* texts are both empty or are the exports of the stored key pair.
C12_KeyTextConsistency ==
  SinGenerarEnCurso =>
    \/ privPemA = <<>> /\ pubPemA = <<>>
    \/ /\ privKeyA # 0 /\ pubKeyA # 0
       /\ privPemA = exportPrivateKeyToPEM(privKeyA).val
       /\ pubPemA = exportPublicKeyToPEM(pubKeyA).val

\* C13: in the step in which a handleFirmar call stores its signature, the
\* stored signature text is the signature of the stored snapshot under the
\* stored private key, whatever happened while the call was suspended.
C13_SignatureOfSnapshot ==
  [][\A i \in 1..MaxInflight :
       FirmarSig(i) =>
         firmaB64' = bufToBase64(signMessage(privKeyA', Utf8(originalMensaje')))]_vars

\* no call of handleVerificar is suspended
SinVerificarEnCurso == \A i \in 1..Len(calls) : calls[i].op # "verificar"

\* the line handleVerificar computes from what a call saw when it was clicked
LineaDe(v) ==
  Veredicto(verifySignature(v.key, base64ToBuf(v.firma).val, Utf8(v.msg)),
            v.msg, v.orig)

\* C14: once every handleVerificar call has finished, the result line is the
\* one of the call that was clicked last: a call that finishes after a call
\* clicked later than it (and which reached the check) leaves that later
\* call's line.
C14_LatestVerifyWins ==
  (/\ lastVerify.fin = "shown"
   /\ SinVerificarEnCurso
   /\ lastVerify.luego.hay
   /\ base64ToBuf(lastVerify.luego.firma).ok)
  => verificacion = LineaDe(lastVerify.luego)

\* C15: when a handleGenerarClaves call ends in its catch block, the pair it
\* generated is not the stored one (the previous pair still is); when a
\* handleFirmar call ends in its catch block, alone and with the message as
\* it found it, the snapshot is the one of the render in which it was clicked.
C15_UnchangedOnError ==
  [][\A i \in 1..MaxInflight :
       /\ GenerarReject(i) => (privKeyA' # calls[i].key /\ pubKeyA' # calls[i].key)
       /\ (FirmarReject(i) /\ Len(calls) = 1 /\ mensaje = calls[i].msg)
          => originalMensaje' = calls[i].orig]_vars

\* no call of handleImportarPubEnReceptor is suspended
SinImportarEnCurso == \A i \in 1..Len(calls) : calls[i].op # "importar"

\* C16: whenever the verifier has an imported key and no import is in
\* progress, that key is what importing the text now in the verifier's PEM box
\* gives.
C16_ImportedKeyOfHeldText ==
  (pubKeyB # 0 /\ SinImportarEnCurso) =>
    /\ importPublicKeyFromPEM(pubPemB).ok
    /\ importPublicKeyFromPEM(pubPemB).key = pubKeyB

\* C17: handleFirmar without a private key or with an empty message,
\* handleImportarPubEnReceptor with an empty PEM text and handleVerificar
\* without an imported key or with an empty signature text return leaving
\* every field of the session as it was.
C17_GuardsFrame ==
  [][(FirmarNoPasa \/ ImportarNoPasa \/ VerificarNoPasa) =>
       UNCHANGED <<privKeyA, pubKeyA, privPemA, pubPemA, pubKeyB, pubPemB,
                   mensaje, originalMensaje, firmaB64, verificacion, calls>>]_vars

\* handleFirmar was called without a private key while the message differed
\* from the snapshot
C17_Witness ==
  /\ lastVerify.fin = "firmar-guard"
  /\ privKeyA = 0
  /\ mensaje # <<>>
  /\ originalMensaje # mensaje
  /\ firmaB64 = <<>>

\* C18: every step of a handleGenerarClaves call leaves the message, the
\* snapshot, the signature, the verifier's PEM text and key and the result
\* line as they were; and a signature made with a pair that has since been
\* replaced, checked with that pair's exported public key imported and the
\* message as signed, gives the authentic line.
C18_RegenerationFrame ==
  /\ [][(Regenerar \/ \E i \in 1..MaxInflight : GenerarPair(i) \/ GenerarPems(i))
          => UNCHANGED <<mensaje, originalMensaje, firmaB64, pubPemB, pubKeyB,
                         verificacion>>]_vars
  /\ [](\A k \in 1..MaxRegen :
          (/\ Verificado /\ FirmadoPor(k) /\ ImportadoDeExportado(k)
           /\ privKeyA # 0 /\ privKeyA # k
           /\ lastVerify.msg = lastVerify.firmado.msg)
          => (lastVerify.fin = "shown" /\ verificacion = FirmaValida))

\* signed with pair 1, pair 2 generated and exported, then verified
C18_Witness ==
  /\ lastVerify.fin = "shown"
  /\ FirmadoPor(1) /\ ImportadoDeExportado(1)
  /\ privKeyA = 2 /\ pubKeyA = 2
  /\ pubPemA = exportPublicKeyToPEM(2).val
  /\ firmaB64 = lastVerify.firma
  /\ lastVerify.msg = lastVerify.firmado.msg
  /\ verificacion = FirmaValida

====
